---- MODULE Spec2Model ----
(***************************************************************************)
(* Model of npch_slicer (src/src/main.rs): a batch pipeline that reads     *)
(* page-range requests from a CSV file, validates them, and for each       *)
(* request writes a copy of the guide PDF holding only the requested       *)
(* pages, then runs an external tool (gswin64) on the written file.        *)
(*                                                                         *)
(* A PDF document is modelled by the ascending sequence of its page        *)
(* numbers (the keys of Document::get_pages).  A panic (a failed unwrap)   *)
(* ends the process: pc = "panicked" and `panic` holds the cause.          *)
(***************************************************************************)
EXTENDS Integers, Sequences, FiniteSets, TLC

\* Bounds of the model.
MaxPage == 2
MaxRows == 2

Descriptions == {"a", "b"}
Pages == 0..MaxPage

VARIABLES
    csv,                        \* rows of ./inputs/npch_slicer.csv
    guide,                      \* pages of ./inputs/npch_guide.pdf (file on disk)
    pc,                         \* position of main
    raw_slice_requests,         \* slice(): the deserialized rows
    individual_slice_requests,  \* slice(): the requests validated so far
    slice_requests,             \* the SliceRequests handed to slice_guide
    document,                   \* slice_guide(): the loaded Document
    all_pages,                  \* slice_guide(): page set captured at load
    idx,                        \* slice_guide(): position of the for loop (1-based)
    required_deletions,         \* loop body: the deletion list of this iteration
    slice_pdf,                  \* loop body: the working copy
    unoptimized,                \* files of ./outputs/unoptimized/, by description
    optimized,                  \* files of ./outputs/optimized/, by description
    exported,                   \* log: one entry per successful save
    shrunk,                     \* log: one entry per call of shrink
    panic                       \* cause of the panic, kind "none" while running

vars == <<csv, guide, pc, raw_slice_requests, individual_slice_requests,
          slice_requests, document, all_pages, idx, required_deletions,
          slice_pdf, unoptimized, optimized, exported, shrunk, panic>>

----
\* Helpers on sets and sequences.

Range(s) == {s[i] : i \in DOMAIN s}

Min(S) == CHOOSE x \in S : \A y \in S : x <= y

RECURSIVE SortedSeq(_)
\* BTreeSet iteration order: ascending.
SortedSeq(S) == IF S = {} THEN <<>>
                ELSE <<Min(S)>> \o SortedSeq(S \ {Min(S)})

RECURSIVE SeqsUpTo(_, _)
SeqsUpTo(S, n) == IF n = 0 THEN {<<>>}
                  ELSE LET shorter == SeqsUpTo(S, n - 1)
                       IN  shorter \cup {Append(s, x) : s \in {t \in shorter : Len(t) = n - 1}, x \in S}

----
\* Data types.

RawSliceRequest == [description : Descriptions, start_page : Pages, end_page : Pages]

NoPanic == [kind |-> "none"]

NoFile == [exists |-> FALSE, pages |-> <<>>]

File(pgs) == [exists |-> TRUE, pages |-> pgs]

EmptySliceRequests == [individuals |-> <<>>, required_pages |-> {}]

----
\* Pure functions.

cmp(a, b) == IF a < b THEN "Less" ELSE IF a = b THEN "Equal" ELSE "Greater"

RECURSIVE RangeSet(_, _)
\* BTreeSet::from_iter(start..end): the iterator yields start, start+1, ...
\* while the value is below end.
RangeSet(start, end) == IF start < end THEN {start} \cup RangeSet(start + 1, end)
                        ELSE {}

\* Mutant: the page set is built from the closed range start..=end.
try_from_inclusive(record) ==
    LET ord == cmp(record.start_page, record.end_page)
    IN  IF ord = "Less"
        THEN [ok |-> TRUE,
              value |-> [description |-> record.description,
                         start_page  |-> record.start_page,
                         end_page    |-> record.end_page,
                         pages       |-> RangeSet(record.start_page, record.end_page + 1)]]
        ELSE IF ord = "Equal"
        THEN [ok |-> FALSE,
              error |-> [kind |-> "EmptyPageRange",
                         description |-> record.description]]
        ELSE [ok |-> FALSE,
              error |-> [kind |-> "InvalidPageRange",
                         description |-> record.description,
                         start_page  |-> record.start_page,
                         end_page    |-> record.end_page]]

\* Mutant: the Equal and Greater arms of the match are swapped.
try_from_swapped(record) ==
    LET ord == cmp(record.start_page, record.end_page)
    IN  IF ord = "Less"
        THEN [ok |-> TRUE,
              value |-> [description |-> record.description,
                         start_page  |-> record.start_page,
                         end_page    |-> record.end_page,
                         pages       |-> RangeSet(record.start_page, record.end_page)]]
        ELSE IF ord = "Greater"
        THEN [ok |-> FALSE,
              error |-> [kind |-> "EmptyPageRange",
                         description |-> record.description]]
        ELSE [ok |-> FALSE,
              error |-> [kind |-> "InvalidPageRange",
                         description |-> record.description,
                         start_page  |-> record.start_page,
                         end_page    |-> record.end_page]]

try_from(record) ==
    LET ord == cmp(record.start_page, record.end_page)
    IN  IF ord = "Less"
        THEN [ok |-> TRUE,
              value |-> [description |-> record.description,
                         start_page  |-> record.start_page,
                         end_page    |-> record.end_page,
                         pages       |-> RangeSet(record.start_page, record.end_page)]]
        ELSE IF ord = "Equal"
        THEN [ok |-> FALSE,
              error |-> [kind |-> "EmptyPageRange",
                         description |-> record.description]]
        ELSE [ok |-> FALSE,
              error |-> [kind |-> "InvalidPageRange",
                         description |-> record.description,
                         start_page  |-> record.start_page,
                         end_page    |-> record.end_page]]

RECURSIVE InsertRange(_, _, _)
\* inner loop of SliceRequests::new: insert every pg of start..end.
InsertRange(set, start, end) ==
    IF start < end THEN InsertRange(set \cup {start}, start + 1, end) ELSE set

RECURSIVE InsertAll(_, _, _)
\* outer loop of SliceRequests::new over individuals.iter().
InsertAll(set, individuals, k) ==
    IF k > Len(individuals) THEN set
    ELSE InsertAll(InsertRange(set, individuals[k].start_page, individuals[k].end_page),
                   individuals, k + 1)

\* Mutant: required_pages is rebuilt for each request instead of accumulated,
\* so only the last request's pages remain.
SliceRequests_new_last(individuals) ==
    [individuals |-> individuals,
     required_pages |-> IF individuals = <<>> THEN {}
                        ELSE InsertRange({}, individuals[Len(individuals)].start_page,
                                         individuals[Len(individuals)].end_page)]

SliceRequests_new(individuals) ==
    [individuals |-> individuals,
     required_pages |-> InsertAll({}, individuals, 1)]

unnecessary_pages(self, pages) == pages \ self.required_pages

get_pages(doc) == Range(doc)

\* Mutant: symmetric difference instead of difference.
plan_deletions_symmetric(pages_of_source, slice_request) ==
    SortedSeq((pages_of_source \ slice_request.pages)
              \cup (slice_request.pages \ pages_of_source))

\* all_pages.sub(&slice_request.pages).into_iter().collect::<Vec<u32>>()
plan_deletions(pages_of_source, slice_request) ==
    SortedSeq(pages_of_source \ slice_request.pages)

\* Mutant: the filter is inverted, the listed pages are the ones kept.
delete_pages_inverted(doc, page_numbers) ==
    SelectSeq(doc, LAMBDA p : p \in Range(page_numbers))

\* Document::delete_pages: drops the pages whose number is listed; a listed
\* number the document does not have is skipped.
delete_pages(doc, page_numbers) ==
    SelectSeq(doc, LAMBDA p : p \notin Range(page_numbers))

\* Mutant: the deletions are applied to the shared document, not to a clone.
source_after_delete_in_place(doc, copy) == copy

\* let mut slice_pdf = document.clone(); slice_pdf.delete_pages(..):
\* the deletions hit the clone, the shared document keeps its value.
source_after_delete(doc, copy) == doc

----
Init ==
    /\ csv \in SeqsUpTo(RawSliceRequest, MaxRows)
    /\ \E S \in SUBSET Pages : guide = SortedSeq(S)
    /\ pc = "read"
    /\ raw_slice_requests = <<>>
    /\ individual_slice_requests = <<>>
    /\ slice_requests = EmptySliceRequests
    /\ document = <<>>
    /\ all_pages = {}
    /\ idx = 1
    /\ required_deletions = <<>>
    /\ slice_pdf = <<>>
    /\ unoptimized = [d \in Descriptions |-> NoFile]
    /\ optimized = [d \in Descriptions |-> NoFile]
    /\ exported = <<>>
    /\ shrunk = <<>>
    /\ panic = NoPanic

Abort(cause) == pc' = "panicked" /\ panic' = cause

\* slice(): the reader deserializes every row before any is validated.
ReadCsv ==
    /\ pc = "read"
    /\ raw_slice_requests' = csv
    /\ pc' = "validate"
    /\ UNCHANGED <<csv, guide, individual_slice_requests, slice_requests, document,
                   all_pages, idx, required_deletions, slice_pdf, unoptimized,
                   optimized, exported, shrunk, panic>>

\* Mutant: an invalid row is replaced by a request with no pages and the
\* iteration goes on.
ValidateRow_lenient ==
    /\ pc = "validate"
    /\ Len(individual_slice_requests) < Len(raw_slice_requests)
    /\ LET record == raw_slice_requests[Len(individual_slice_requests) + 1]
           r == try_from(record)
       IN  individual_slice_requests' =
               Append(individual_slice_requests,
                      IF r.ok THEN r.value
                      ELSE [description |-> record.description,
                            start_page  |-> record.start_page,
                            end_page    |-> record.end_page,
                            pages       |-> {}])
    /\ UNCHANGED <<csv, guide, pc, panic, raw_slice_requests, slice_requests, document,
                   all_pages, idx, required_deletions, slice_pdf, unoptimized,
                   optimized, exported, shrunk>>

\* slice(): one step of map(SliceRequest::try_from).collect::<Result<Vec,_>>().unwrap():
\* the first Err stops the iteration and the unwrap panics with it.
ValidateRow ==
    /\ pc = "validate"
    /\ Len(individual_slice_requests) < Len(raw_slice_requests)
    /\ LET r == try_from(raw_slice_requests[Len(individual_slice_requests) + 1])
       IN  IF r.ok
           THEN /\ individual_slice_requests' = Append(individual_slice_requests, r.value)
                /\ UNCHANGED <<pc, panic>>
           ELSE /\ Abort(r.error)
                /\ UNCHANGED individual_slice_requests
    /\ UNCHANGED <<csv, guide, raw_slice_requests, slice_requests, document, all_pages,
                   idx, required_deletions, slice_pdf, unoptimized, optimized,
                   exported, shrunk>>

\* slice(): every row validated; SliceRequests::new builds the collection and
\* main passes it to slice_guide.
BuildRequests ==
    /\ pc = "validate"
    /\ Len(individual_slice_requests) = Len(raw_slice_requests)
    /\ slice_requests' = SliceRequests_new(individual_slice_requests)
    /\ pc' = "load"
    /\ UNCHANGED <<csv, guide, raw_slice_requests, individual_slice_requests, document,
                   all_pages, idx, required_deletions, slice_pdf, unoptimized,
                   optimized, exported, shrunk, panic>>

\* slice_guide(): Document::load(...).unwrap() and the capture of all_pages.
LoadGuide ==
    /\ pc = "load"
    /\ \E ok \in BOOLEAN :
         IF ok
         THEN /\ document' = guide
              /\ all_pages' = get_pages(guide)
              /\ pc' = "mkdir"
              /\ UNCHANGED panic
         ELSE /\ Abort([kind |-> "LoadError"])
              /\ UNCHANGED <<document, all_pages>>
    /\ UNCHANGED <<csv, guide, raw_slice_requests, individual_slice_requests,
                   slice_requests, idx, required_deletions, slice_pdf, unoptimized,
                   optimized, exported, shrunk>>

\* slice_guide(): the two create_dir_all(...).unwrap() calls.
CreateDirs ==
    /\ pc = "mkdir"
    /\ \E ok \in BOOLEAN :
         IF ok
         THEN pc' = "export" /\ UNCHANGED panic
         ELSE Abort([kind |-> "CreateDirError"])
    /\ UNCHANGED <<csv, guide, raw_slice_requests, individual_slice_requests,
                   slice_requests, document, all_pages, idx, required_deletions,
                   slice_pdf, unoptimized, optimized, exported, shrunk>>

\* Mutant: a failed save is logged and the loop goes on with the next request.
Export_continue ==
    /\ pc = "export"
    /\ idx <= Len(slice_requests.individuals)
    /\ LET slice_request == slice_requests.individuals[idx]
           deletions == plan_deletions(all_pages, slice_request)
           copy == delete_pages(document, deletions)
       IN  /\ required_deletions' = deletions
           /\ slice_pdf' = copy
           /\ document' = source_after_delete(document, copy)
           /\ \E ok \in BOOLEAN :
                IF ok
                THEN /\ unoptimized' = [unoptimized EXCEPT
                                          ![slice_request.description] = File(copy)]
                     /\ exported' = Append(exported,
                                           [description |-> slice_request.description,
                                            deletions |-> deletions,
                                            pages |-> copy])
                     /\ pc' = "shrink"
                     /\ UNCHANGED <<panic, idx>>
                ELSE /\ idx' = idx + 1
                     /\ panic' = [kind |-> "SaveError",
                                  description |-> slice_request.description]
                     /\ UNCHANGED <<exported, unoptimized, pc>>
    /\ UNCHANGED <<csv, guide, raw_slice_requests, individual_slice_requests,
                   slice_requests, all_pages, optimized, shrunk>>

\* slice_guide(): the loop body up to save(...).unwrap().  A failed save
\* panics; no code of the program touches the files written before.
Export ==
    /\ pc = "export"
    /\ idx <= Len(slice_requests.individuals)
    /\ LET slice_request == slice_requests.individuals[idx]
           deletions == plan_deletions(all_pages, slice_request)
           copy == delete_pages(document, deletions)
       IN  /\ required_deletions' = deletions
           /\ slice_pdf' = copy
           /\ document' = source_after_delete(document, copy)
           /\ \E ok \in BOOLEAN :
                IF ok
                THEN /\ unoptimized' = [unoptimized EXCEPT
                                          ![slice_request.description] = File(copy)]
                     /\ exported' = Append(exported,
                                           [description |-> slice_request.description,
                                            deletions |-> deletions,
                                            pages |-> copy])
                     /\ pc' = "shrink"
                     /\ UNCHANGED panic
                ELSE /\ Abort([kind |-> "SaveError",
                               description |-> slice_request.description])
                     /\ UNCHANGED <<exported, unoptimized>>
    /\ UNCHANGED <<csv, guide, raw_slice_requests, individual_slice_requests,
                   slice_requests, all_pages, idx, optimized, shrunk>>

\* shrink(): metadata of the input (the file was saved by the caller just
\* before, so the read succeeds), Command::output().unwrap(), metadata of the
\* output, println.  The exit status of the tool is never read.
\*   tool = "missing": the process cannot be spawned, output() is Err.
\*   tool = "failed" : the tool ran and exited non-zero.
\*   tool = "ok"     : the tool ran, exited zero and wrote the output file.
\*   left            : the call left a file at output_path (a failing tool
\*                     may or may not create one).
shrink ==
    /\ pc = "shrink"
    /\ LET pdf_name == slice_requests.individuals[idx].description
       IN  \E tool \in {"missing", "failed", "ok"}, left \in BOOLEAN :
             /\ tool = "missing" => ~left
             /\ tool = "ok" => left
             /\ optimized' =
                  IF left
                  THEN [optimized EXCEPT ![pdf_name] =
                          File(IF tool = "ok" THEN unoptimized[pdf_name].pages ELSE <<>>)]
                  ELSE optimized
             /\ IF tool = "missing"
                THEN /\ Abort([kind |-> "SpawnError", description |-> pdf_name])
                     /\ shrunk' = Append(shrunk, [description |-> pdf_name,
                                                  tool |-> tool, reported |-> FALSE])
                     /\ UNCHANGED idx
                ELSE IF ~optimized'[pdf_name].exists
                THEN /\ Abort([kind |-> "MetadataError", description |-> pdf_name])
                     /\ shrunk' = Append(shrunk, [description |-> pdf_name,
                                                  tool |-> tool, reported |-> FALSE])
                     /\ UNCHANGED idx
                ELSE /\ shrunk' = Append(shrunk, [description |-> pdf_name,
                                                  tool |-> tool, reported |-> TRUE])
                     /\ idx' = idx + 1
                     /\ pc' = "export"
                     /\ UNCHANGED panic
    /\ UNCHANGED <<csv, guide, raw_slice_requests, individual_slice_requests,
                   slice_requests, document, all_pages, required_deletions,
                   slice_pdf, unoptimized, exported>>

\* slice_guide(): the iterator is exhausted; main returns.
Finish ==
    /\ pc = "export"
    /\ idx > Len(slice_requests.individuals)
    /\ pc' = "done"
    /\ UNCHANGED <<csv, guide, raw_slice_requests, individual_slice_requests,
                   slice_requests, document, all_pages, idx, required_deletions,
                   slice_pdf, unoptimized, optimized, exported, shrunk, panic>>

Next ==
    \/ ReadCsv
    \/ ValidateRow
    \/ BuildRequests
    \/ LoadGuide
    \/ CreateDirs
    \/ Export
    \/ shrink
    \/ Finish

Spec == Init /\ [][Next]_vars

----
\* Vocabulary of the properties.

HalfOpen(start, end) == {p \in 0..(MaxPage + 1) : start <= p /\ p < end}

IsValid(record) == record.start_page < record.end_page

ValidationKinds == {"EmptyPageRange", "InvalidPageRange"}

\* Index of the first row of the csv that fails range validation, 0 if none.
FirstInvalid ==
    IF \E k \in DOMAIN csv : ~IsValid(csv[k])
    THEN CHOOSE k \in DOMAIN csv :
            /\ ~IsValid(csv[k])
            /\ \A j \in 1..(k - 1) : IsValid(csv[j])
    ELSE 0

\* Position of page p in the sequence src.
Pos(src, p) == CHOOSE n \in DOMAIN src : src[n] = p

\* out holds pages of src only, each once, in the relative order of src.
InSourceOrder(out, src) ==
    /\ Range(out) \subseteq Range(src)
    /\ \A i, j \in DOMAIN out : i < j => Pos(src, out[i]) < Pos(src, out[j])

\* The guide has been loaded (slice_guide is past Document::load).
Loaded ==
    \/ pc \in {"mkdir", "export", "shrink", "done"}
    \/ pc = "panicked" /\ panic.kind \in {"CreateDirError", "SaveError",
                                           "SpawnError", "MetadataError"}

\* The request the loop of slice_guide is at.
Current == slice_requests.individuals[idx]

----
\* C1: every row with start_page < end_page is accepted by try_from, and the
\* SliceRequest it yields keeps description, start_page and end_page and has
\* pages = {start_page, ..., end_page - 1}: start_page is in it, end_page is
\* not, it is non-empty and has end_page - start_page elements.
C1_ValidRangeAccepted ==
    /\ \A k \in DOMAIN individual_slice_requests :
         LET r == raw_slice_requests[k]
             v == individual_slice_requests[k]
         IN  /\ v.description = r.description
             /\ v.start_page = r.start_page
             /\ v.end_page = r.end_page
             /\ v.pages = HalfOpen(r.start_page, r.end_page)
             /\ r.start_page \in v.pages
             /\ r.end_page \notin v.pages
             /\ v.pages # {}
             /\ Cardinality(v.pages) = r.end_page - r.start_page
    /\ panic.kind \in ValidationKinds =>
         ~IsValid(raw_slice_requests[Len(individual_slice_requests) + 1])

C1_Witness ==
    \E k \in DOMAIN individual_slice_requests :
        /\ IsValid(raw_slice_requests[k])
        /\ Cardinality(individual_slice_requests[k].pages) >= 2

\* C2: a row with start_page = end_page is rejected with EmptyPageRange
\* carrying its description (also for 0 = 0), a row with start_page > end_page
\* with InvalidPageRange carrying description and both bounds; such a row is
\* never accepted and never gets the other error.
C2_DegenerateRangeRejected ==
    /\ \A k \in DOMAIN individual_slice_requests : IsValid(raw_slice_requests[k])
    /\ panic.kind \in ValidationKinds =>
         LET r == raw_slice_requests[Len(individual_slice_requests) + 1]
         IN  /\ r.start_page = r.end_page =>
                  panic = [kind |-> "EmptyPageRange", description |-> r.description]
             /\ r.start_page > r.end_page =>
                  panic = [kind |-> "InvalidPageRange", description |-> r.description,
                           start_page |-> r.start_page, end_page |-> r.end_page]
    /\ pc \in {"load", "mkdir", "export", "shrink", "done"} =>
         \A k \in DOMAIN raw_slice_requests : IsValid(raw_slice_requests[k])

C2_Witness ==
    /\ panic.kind = "EmptyPageRange"
    /\ Len(individual_slice_requests) = 1
    /\ raw_slice_requests[2].start_page = 0
    /\ raw_slice_requests[2].end_page = 0

\* C3: when the pages of the request are all in the source, the deletion list
\* of the export holds exactly the source pages outside the request, and the
\* saved document holds exactly the pages of the request, in source order.
C3_ExportRetainsRequestedPages ==
    /\ pc = "shrink" /\ Current.pages \subseteq all_pages =>
         /\ Range(required_deletions) = all_pages \ Current.pages
         /\ Range(slice_pdf) = Current.pages
         /\ Len(slice_pdf) = Cardinality(Current.pages)
         /\ InSourceOrder(slice_pdf, guide)
         /\ unoptimized[Current.description] = File(slice_pdf)
    /\ \A i \in DOMAIN exported :
         slice_requests.individuals[i].pages \subseteq all_pages =>
           /\ Range(exported[i].deletions) = all_pages \ slice_requests.individuals[i].pages
           /\ Range(exported[i].pages) = slice_requests.individuals[i].pages
           /\ InSourceOrder(exported[i].pages, guide)

C3_Witness ==
    /\ pc = "shrink"
    /\ Current.pages \subseteq all_pages
    /\ Cardinality(Current.pages) >= 2
    /\ Len(required_deletions) >= 1

\* C4: no export changes the loaded document or the page set captured at
\* load: both stay equal to the guide, and the document saved for request i
\* is the guide filtered by request i's pages, whatever the other requests.
C4_SourceNeverChanged ==
    Loaded =>
      /\ document = guide
      /\ all_pages = Range(guide)
      /\ \A i \in DOMAIN exported :
           exported[i].pages =
             SelectSeq(guide, LAMBDA p : p \in slice_requests.individuals[i].pages)

C4_Witness ==
    /\ Len(exported) = 2
    /\ exported[1].pages # guide
    /\ exported[2].pages # <<>>
    /\ exported[1].pages # exported[2].pages

\* C5: when some row fails range validation the run panics with the error of
\* the first such row; it never gets past validation, writes no file and
\* starts no export or shrink, also for the valid rows before that row.
C5_FirstInvalidRowAborts ==
    FirstInvalid # 0 =>
      /\ pc \in {"read", "validate", "panicked"}
      /\ Len(individual_slice_requests) < FirstInvalid
      /\ exported = <<>> /\ shrunk = <<>>
      /\ \A d \in Descriptions : ~unoptimized[d].exists /\ ~optimized[d].exists
      /\ pc = "panicked" =>
           /\ Len(individual_slice_requests) = FirstInvalid - 1
           /\ panic.kind \in ValidationKinds
           /\ panic.description = csv[FirstInvalid].description
           /\ panic.kind = IF csv[FirstInvalid].start_page = csv[FirstInvalid].end_page
                           THEN "EmptyPageRange" ELSE "InvalidPageRange"

C5_Witness ==
    /\ pc = "panicked"
    /\ FirstInvalid = 2
    /\ Len(individual_slice_requests) = 1

\* C6: required_pages of the collection is the union of the requests' pages;
\* building the collection from any permutation of the requests, or with a
\* request repeated, gives the same set; individuals keeps the input order.
C6_RequiredPagesIsUnion ==
    pc \in {"load", "mkdir", "export", "shrink", "done"} =>
      LET ind == slice_requests.individuals
          n == Len(ind)
      IN  /\ slice_requests.required_pages = UNION {ind[k].pages : k \in 1..n}
          /\ \A perm \in Permutations(1..n) :
               SliceRequests_new([i \in 1..n |-> ind[perm[i]]]).required_pages
                 = slice_requests.required_pages
          /\ \A k \in 1..n :
               SliceRequests_new(Append(ind, ind[k])).required_pages
                 = slice_requests.required_pages
          /\ ind = individual_slice_requests
          /\ n = Len(csv)
          /\ \A k \in 1..n : ind[k].description = csv[k].description
                             /\ ind[k].start_page = csv[k].start_page

C6_Witness ==
    /\ pc = "load"
    /\ Len(slice_requests.individuals) = 2
    /\ slice_requests.individuals[1].pages \ slice_requests.individuals[2].pages # {}
    /\ slice_requests.individuals[2].pages \ slice_requests.individuals[1].pages # {}

\* C7 (the claim as stated): whenever the tool is missing or exits non-zero,
\* shrink does not report success for that file, and the unoptimized file of
\* the request stays in place.
C7_ShrinkFailureIsFatal ==
    \A i \in DOMAIN shrunk :
        shrunk[i].tool # "ok" =>
          /\ ~shrunk[i].reported
          /\ unoptimized[shrunk[i].description].exists

C9_AbsentPagesIgnored ==
    /\ pc = "export" /\ idx \in DOMAIN slice_requests.individuals
         /\ ~(Current.pages \subseteq all_pages)
         => ENABLED (Export /\ pc' = "shrink")
    /\ pc = "shrink" /\ ~(Current.pages \subseteq all_pages) =>
         /\ Range(required_deletions) = all_pages \ Current.pages
         /\ Range(required_deletions) \subseteq all_pages
         /\ Range(slice_pdf) = all_pages \cap Current.pages
         /\ unoptimized[Current.description] = File(slice_pdf)

C9_Witness ==
    /\ pc = "shrink"
    /\ all_pages # {}
    /\ all_pages \cap Current.pages = {}
    /\ unoptimized[Current.description] = File(<<>>)

\* C10 (the claim as stated): requests are handled in input order, each file
\* is saved before shrink is called on it, shrink is called once per saved
\* file, and the export of request i+1 starts only after the tool has
\* succeeded on the file of request i.
C10_StrictOrder ==
    /\ Len(shrunk) <= Len(exported)
    /\ Len(exported) <= Len(shrunk) + 1
    /\ \A i \in DOMAIN exported :
         exported[i].description = slice_requests.individuals[i].description
    /\ \A i \in DOMAIN shrunk :
         shrunk[i].description = exported[i].description
    /\ \A i \in DOMAIN shrunk :
         (i < idx \/ Len(exported) > i) => shrunk[i].tool = "ok" /\ shrunk[i].reported
====
